---- MODULE Spec2Model ----
(***************************************************************************)
(* A model of packages/workbox-webpack-plugin/src/inject-manifest.ts: the  *)
(* InjectManifest plugin.  Texts are sequences of one-character strings.   *)
(***************************************************************************)
EXTENDS Integers, Sequences, FiniteSets, TLC

\* ------------------------------------------------------------------ bounds

\* Instances of the plugin that exist in the process.
NumInst == 2
\* Builds (compilation objects) the outer build tool creates.
MaxBuilds == 2
\* Builds of the single-instance rebuild scenario.
WatchBuilds == 3
\* Longest swSrc file content, in characters.
MaxTextLen == 3
\* Longest injectionPoint, in characters.
MaxMarkerLen == 2

Inst == 1..NumInst
AllBuilds == 1..(IF WatchBuilds > MaxBuilds THEN WatchBuilds ELSE MaxBuilds)

\* ------------------------------------------------------------------- texts

\* The characters of swSrc files and markers: an ordinary character and a
\* regular-expression metacharacter.
Chars == {"m", "."}

SeqsUpTo(S, n) == UNION {[1..k -> S] : k \in 0..n}

Texts == SeqsUpTo(Chars, MaxTextLen)

Markers == SeqsUpTo(Chars, MaxMarkerLen) \ {<<>>}

\* The abbreviation, in a text, of a trailing "//# sourceMappingURL=" comment
\* that names the asset's own map.
MapComment == "#"

Max(a, b) == IF a > b THEN a ELSE b

RECURSIVE Concat(_)
\* The concatenation of a sequence of texts.
Concat(ss) == IF ss = <<>> THEN <<>> ELSE Head(ss) \o Concat(Tail(ss))

\* Whether text p is a prefix of text t.
IsPrefix(p, t) == Len(p) <= Len(t) /\ SubSeq(t, 1, Len(p)) = p

\* Whether text s is a suffix of text t.
IsSuffix(s, t) == Len(s) <= Len(t) /\ SubSeq(t, Len(t) - Len(s) + 1, Len(t)) = s

\* The characters escapeRegExp's character class names: [.*+?^${}()|[\]\\].
RegExpSpecial == {".", "*", "+", "?", "^", "$", "{", "}", "(", ")", "|", "[", "]", "\\"}

\* escapeRegExp(string): string.replace(/[.*+?^${}()|[\]\\]/g, '\\$&').
escapeRegExp(s) ==
  Concat([k \in 1..Len(s) |->
            IF s[k] \in RegExpSpecial THEN <<"\\", s[k]>> ELSE <<s[k]>>])

RECURSIVE RegExpAtoms(_)
\* new RegExp(pattern): the atoms of a pattern built of characters, escaped
\* characters (\c matches c) and the wildcard (. matches any character).
RegExpAtoms(p) ==
  IF p = <<>> THEN <<>>
  ELSE IF p[1] = "\\" /\ Len(p) >= 2
    THEN <<[any |-> FALSE, ch |-> p[2]]>> \o RegExpAtoms(SubSeq(p, 3, Len(p)))
  ELSE IF p[1] = "."
    THEN <<[any |-> TRUE, ch |-> "."]>> \o RegExpAtoms(Tail(p))
  ELSE <<[any |-> FALSE, ch |-> p[1]]>> \o RegExpAtoms(Tail(p))

\* Whether the atoms match text t at 1-based position pos.
AtomsMatchAt(atoms, t, pos) ==
  /\ pos + Len(atoms) - 1 <= Len(t)
  /\ \A k \in 1..Len(atoms) :
       atoms[k].any \/ atoms[k].ch = t[pos + k - 1]

RECURSIVE GlobalMatchCount(_, _, _)
\* string.match(/atoms/g): the number of matches a left-to-right scan finds,
\* each next scan starting after the previous match (0 stands for null).
GlobalMatchCount(atoms, t, pos) ==
  IF pos + Len(atoms) - 1 > Len(t) THEN 0
  ELSE IF AtomsMatchAt(atoms, t, pos)
    THEN 1 + GlobalMatchCount(atoms, t, pos + Max(Len(atoms), 1))
  ELSE GlobalMatchCount(atoms, t, pos + 1)

\* The match with the marker handed to RegExp as it is, unescaped.
injectionResults_unescaped(swAssetString, injectionPoint) ==
  GlobalMatchCount(RegExpAtoms(injectionPoint), swAssetString, 1)

\* swAssetString.match(new RegExp(escapeRegExp(injectionPoint), 'g')): the
\* number of matches, 0 for null.
injectionResults(swAssetString, injectionPoint) ==
  GlobalMatchCount(RegExpAtoms(escapeRegExp(injectionPoint)), swAssetString, 1)

\* The 0-based offsets at which text m occurs in text t.
Occurrences(t, m) ==
  {p \in 0..(Len(t) - Len(m)) : SubSeq(t, p + 1, p + Len(m)) = m}

\* string.indexOf(m): the first offset, -1 when there is none.
IndexOf(t, m) ==
  IF Occurrences(t, m) = {} THEN -1
  ELSE CHOOSE p \in Occurrences(t, m) : \A q \in Occurrences(t, m) : p <= q

\* The grave accent as a character of a text; it is written by its name,
\* since a string cannot hold the character itself.
GraveAccent == "GRAVE ACCENT"

\* The apostrophe as a character of a text.
Apostrophe == "'"

RECURSIVE GetSubstitution(_, _, _, _)
\* The replacement text String.prototype.replace builds for a string pattern
\* matched at offset p: $$ is $, $& the match, $ with a grave accent the text
\* before it, $ with an apostrophe the text after it; every other character
\* stands for itself.
GetSubstitution(r, t, p, m) ==
  IF r = <<>> THEN <<>>
  ELSE IF r[1] = "$" /\ Len(r) >= 2
            /\ r[2] \in {"$", "&", GraveAccent, Apostrophe}
    THEN (IF r[2] = "$" THEN <<"$">>
          ELSE IF r[2] = "&" THEN m
          ELSE IF r[2] = GraveAccent THEN SubSeq(t, 1, p)
          ELSE SubSeq(t, p + Len(m) + 1, Len(t)))
         \o GetSubstitution(SubSeq(r, 3, Len(r)), t, p, m)
  ELSE <<r[1]>> \o GetSubstitution(Tail(r), t, p, m)

\* string.replace(m, r) for strings m and r: the first occurrence replaced.
StringReplace(t, m, r) ==
  LET p == IndexOf(t, m) IN
  IF p = -1 THEN t
  ELSE SubSeq(t, 1, p) \o GetSubstitution(r, t, p, m)
       \o SubSeq(t, p + Len(m) + 1, Len(t))

\* The text with the marker at offset p replaced by r, character for character.
SpliceAt(t, p, m, r) == SubSeq(t, 1, p) \o r \o SubSeq(t, p + Len(m) + 1, Len(t))

\* ------------------------------------------------------------------- names

\* An option the user left out.
Undef == <<"undefined">>

\* config.swSrc of each instance: s.ts, t.ts, ...
SwSrc(i) == <<(<<"s", "t", "u", "v", "w">>)[i], ".", "t", "s">>

\* upath.parse(swSrc).name + '.js'.
DefaultSwDest(swSrc) == SubSeq(swSrc, 1, Len(swSrc) - 3) \o <<".", "j", "s">>

\* compiler.options.output.path.
OutputPath == <<"/", "o">>

\* relativeToOutputPath(compilation, swDest): an absolute path is made
\* relative to the output path, a relative one is kept.
relativeToOutputPath(swDest) ==
  IF IsPrefix(OutputPath \o <<"/">>, swDest)
  THEN SubSeq(swDest, Len(OutputPath) + 2, Len(swDest))
  ELSE swDest

MapSuffix == <<".", "m", "a", "p">>

\* The name of the source map the nested build emits beside an asset.
MapName(name) == name \o MapSuffix

\* Assets of the outer build itself.
AppJs == <<"a", ".", "j", "s">>
DollarJs == <<"$", "&">>

\* Every asset name, in the order of string comparison.
NameOrder ==
  <<DollarJs, AppJs>>
  \o Concat([i \in Inst |->
               <<DefaultSwDest(SwSrc(i)), MapName(DefaultSwDest(SwSrc(i)))>>])

Names == {NameOrder[k] : k \in 1..Len(NameOrder)}

\* ------------------------------------------------------- manifest entries

\* The predicates of config.exclude: the two patterns validation fills in
\* (/\.map$/ and /^manifest.*\.js$/) and the closure addAssets pushes,
\* (name) => _generatedAssetNames.has(name).
MapRe == "/\\.map$/"
ManifestRe == "/^manifest.*\\.js$/"
IsGenerated == "(name) => _generatedAssetNames.has(name)"

DefaultExclude == <<MapRe, ManifestRe>>

\* What one predicate of an exclude list answers for a name, the closure
\* reading the registry as it is when it is called.
Holds(pred, name, registry) ==
  CASE pred = MapRe -> IsSuffix(MapSuffix, name)
    [] pred = ManifestRe -> FALSE
    [] pred = IsGenerated -> name \in registry
    [] OTHER -> FALSE

\* Whether some predicate of the exclude list excludes the name.
Excluded(exclude, name, registry) ==
  \E k \in 1..Len(exclude) : Holds(exclude[k], name, registry)

RECURSIVE SortedUrls(_, _)
\* The names of a set in the order of string comparison.
SortedUrls(names, k) ==
  IF k > Len(NameOrder) THEN <<>>
  ELSE (IF NameOrder[k] \in names THEN <<NameOrder[k]>> ELSE <<>>)
       \o SortedUrls(names, k + 1)

\* getManifestEntriesFromCompilation(compilation, config): one entry for
\* every asset of the compilation that no exclude predicate excludes, sorted
\* by url.
sortedEntries(store, exclude, registry) ==
  LET kept == {n \in Names : store[n].kind # "absent"
                             /\ ~Excluded(exclude, n, registry)}
      urls == SortedUrls(kept, 1)
  IN [k \in 1..Len(urls) |-> [url |-> urls[k], revision |-> "null"]]

Quote == "\""

\* JSON of one entry, keys in sorted order: {"revision":null,"url":"..."}.
EntryJson(e) ==
  <<"{", Quote, "r", "e", "v", "i", "s", "i", "o", "n", Quote, ":",
    "n", "u", "l", "l", ",", Quote, "u", "r", "l", Quote, ":", Quote>>
  \o e.url \o <<Quote, "}">>

RECURSIVE JoinEntries(_)
JoinEntries(es) ==
  IF es = <<>> THEN <<>>
  ELSE IF Len(es) = 1 THEN EntryJson(es[1])
  ELSE EntryJson(es[1]) \o <<",">> \o JoinEntries(Tail(es))

\* stringify(sortedEntries) of fast-json-stable-stringify.
stringify(es) == <<"[">> \o JoinEntries(es) \o <<"]">>

\* manifestString.replace(/"/g, "'"), as a template literal in the source.
ReplaceQuotes(t) == [k \in 1..Len(t) |-> IF t[k] = Quote THEN "'" ELSE t[k]]

\* The devtool for which the quotes are kept when the build minimizes.
EvalCheapSourceMap == "eval-cheap-source-map"

\* The condition of the quote rewrite with compileSrc left out of it.
rewritesQuotes_anyMode(compileSrc, options) ==
  ~(options.devtool = EvalCheapSourceMap /\ options.minimize)

\* this.config.compileSrc && !(compilation.options &&
\* compilation.options.devtool === 'eval-cheap-source-map' &&
\* compilation.options.optimization && compilation.options.optimization.minimize).
rewritesQuotes(compileSrc, options) ==
  compileSrc /\ ~(options.devtool = EvalCheapSourceMap /\ options.minimize)

\* let manifestString = stringify(sortedEntries), rewritten when the
\* condition holds.
manifestStringOf(es, compileSrc, options) ==
  IF rewritesQuotes(compileSrc, options)
  THEN ReplaceQuotes(stringify(es))
  ELSE stringify(es)

\* ------------------------------------------------------------ asset store

Absent == [kind |-> "absent"]
TextAsset(t) == [kind |-> "text", text |-> t]
\* A source map: the generated columns of its mappings.
MapAsset(cols) == [kind |-> "map", cols |-> cols]

EmptyStore == [n \in Names |-> Absent]

\* compilation.getAsset(name): undefined for a name the store does not hold.
getAsset(store, name) == IF name \in Names THEN store[name] ELSE Absent

\* getSourcemapAssetName(compilation, swAssetString, swDest): the asset the
\* text's sourceMappingURL comment names, when the compilation holds it.
getSourcemapAssetName(store, swAssetString, swDest) ==
  IF /\ \E k \in 1..Len(swAssetString) : swAssetString[k] = MapComment
     /\ getAsset(store, MapName(swDest)).kind = "map"
  THEN MapName(swDest)
  ELSE Undef

\* replaceAndUpdateSourceMap(...).source: the marker replaced by the text.
remapSource(t, m, r) == SpliceAt(t, IndexOf(t, m), m, r)

\* replaceAndUpdateSourceMap(...).map: the mappings after the insertion
\* point moved by the difference of the lengths.
remapCols(cols, t, m, r) ==
  LET p == IndexOf(t, m) IN
  [k \in 1..Len(cols) |->
     IF cols[k] > p THEN cols[k] + Len(r) - Len(m) ELSE cols[k]]

\* What the nested build makes of a source file: its text, followed by a
\* sourceMappingURL comment when the devtool writes a separate map.
BundleText(src, options) ==
  IF options.devtool = "source-map" THEN src \o <<MapComment>> ELSE src

\* The mappings of the nested build's map: one for every column of the text.
BundleCols(src) == [k \in 1..Len(src) |-> k - 1]

\* ------------------------------------------------------------ diagnostics

RepeatedMsg == "InjectManifest has been called multiple times"
CantFindMsg == "Can't find injectionPoint in your SW source."
MultipleMsg == "Multiple instances of injectionPoint were found in your SW source."
ConfigMsg == "Please check your InjectManifest plugin configuration"
IgnoredMsg == "compileSrc is false, so the webpackCompilationPlugins option will be ignored."
TypeErrorMsg == "TypeError"
ChildWarningMsg == "warning of the nested build"
ChildErrorMsg == "error of the nested build"
RunErrorMsg == "error passed to the runAsChild callback"
EntriesErrorMsg == "getManifestEntriesFromCompilation rejected"
RemapErrorMsg == "replaceAndUpdateSourceMap rejected"
ParseErrorMsg == "SyntaxError of JSON.parse"

\* A warning or an error, with the instance and the hook it came from.
Diag(msg, i, hook) == [msg |-> msg, by |-> i, hook |-> hook]

\* ------------------------------------------------------------------ state

VARIABLES
  generatedAssetNames,  \* _generatedAssetNames, shared by every instance
  config,               \* this.config of each instance
  alreadyCalled,        \* this.alreadyCalled of each instance
  instances,            \* the instances that were constructed
  tapped,               \* the instances whose hooks are tapped, in order
  options,              \* compiler.options: devtool, minimize, mode
  fs,                   \* the input file system: the text of each swSrc
  mainAssets,           \* the names of the assets the outer build emits
  watch,                \* whether a build starts only when the last has ended
  buildsLeft,           \* the builds the outer build tool will still start
  started,              \* the compilations that exist
  assets,               \* compilation.assets of each compilation
  warnings,             \* compilation.warnings of each compilation
  errors,               \* compilation.errors of each compilation
  mk,                   \* the handleMake call of each instance and build
  aa,                   \* the addAssets call of each instance and build
  registeredIn          \* the names added to the registry during each build

vars == <<generatedAssetNames, config, alreadyCalled, instances, tapped,
          options, fs, mainAssets, watch, buildsLeft, started, assets, warnings,
          errors, mk, aa, registeredIn>>

plugin == <<config, alreadyCalled>>
world == <<instances, options, fs, mainAssets, watch>>

\* A handleMake call that has not started.
IdleMake ==
  [pc |-> "idle", promise |-> "none", filename |-> Undef, applied |-> 0,
   result |-> [err |-> FALSE, warnings |-> <<>>, errors |-> <<>>, emits |-> FALSE]]

\* An addAssets call that has not started.
IdleAdd ==
  [pc |-> "idle", promise |-> "none", thrown |-> "none",
   callNo |-> 0, sawCalled |-> FALSE, warned |-> FALSE,
   swDest |-> Undef, injectionPoint |-> Undef, swAssetString |-> <<>>,
   matches |-> 0, exclude |-> Undef, registryAtCall |-> {},
   entries |-> <<>>, manifestString |-> <<>>, sourcemapAssetName |-> Undef,
   originalMap |-> Absent, beforeText |-> Absent, beforeMap |-> Absent,
   updated |-> FALSE]

\* The ways a nested build ends: it emits its assets with a warning, it ends
\* with errors of its own, or runAsChild passes an error to its callback.
ChildResults ==
  { [err |-> FALSE, warnings |-> <<ChildWarningMsg>>, errors |-> <<>>, emits |-> TRUE],
    [err |-> FALSE, warnings |-> <<ChildWarningMsg>>, errors |-> <<ChildErrorMsg>>,
     emits |-> FALSE],
    [err |-> TRUE, warnings |-> <<>>, errors |-> <<>>, emits |-> FALSE] }

\* The configuration object handed to the constructor.
UserConfig(i, compileSrc, marker, swDest, exclude, nPlugins, invalid, mode) ==
  [swSrc |-> SwSrc(i), swDest |-> swDest, mode |-> mode,
   compileSrc |-> compileSrc, injectionPoint |-> marker, exclude |-> exclude,
   webpackCompilationPlugins |-> nPlugins, invalid |-> invalid]

\* constructor(config): this.config = config; this.alreadyCalled = false.
InitWith(insts, nBuilds, inWatch, configs, texts, opts, mains) ==
  /\ generatedAssetNames = {}
  /\ instances = insts
  /\ \E c \in [insts -> UNION {configs[i] : i \in insts}] :
       /\ \A i \in insts : c[i] \in configs[i]
       /\ config = [i \in Inst |->
                      IF i \in insts THEN c[i]
                      ELSE UserConfig(i, TRUE, <<"m">>, Undef, Undef, 0, FALSE, Undef)]
  /\ alreadyCalled = [i \in Inst |-> FALSE]
  /\ tapped = <<>>
  /\ options \in opts
  /\ \E f \in [insts -> texts] :
       fs = [i \in Inst |-> IF i \in insts THEN f[i] ELSE <<>>]
  /\ mainAssets \in mains
  /\ watch = inWatch
  /\ buildsLeft = nBuilds
  /\ started = [b \in AllBuilds |-> FALSE]
  /\ assets = [b \in AllBuilds |-> EmptyStore]
  /\ warnings = [b \in AllBuilds |-> <<>>]
  /\ errors = [b \in AllBuilds |-> <<>>]
  /\ mk = [i \in Inst |-> [b \in AllBuilds |-> IdleMake]]
  /\ aa = [i \in Inst |-> [b \in AllBuilds |-> IdleAdd]]
  /\ registeredIn = [b \in AllBuilds |-> {}]

\* ---------------------------------------------------------------- helpers

\* _generatedAssetNames.add(name).
registerName_replacing(registry, name) == {name}

registerName(registry, name) == registry \cup {name}

\* The catch handler of a hook that drops the error.
catchError_swallowed(errs, e) == errs

\* .catch((error) => { compilation.errors.push(error); }).
catchError(errs, e) == Append(errs, e)

\* The promise a tapped hook returns, handleMake(...).catch(...) or
\* addAssets(...).catch(...), once the call ends: the handler returns, so the
\* promise is resolved whether or not the call threw.
hookPromise(thrown) == "resolved"

\* Whether every call of build b has ended.
Ended(b) ==
  /\ started[b]
  /\ \A i \in instances : mk[i][b].pc = "done" /\ aa[i][b].pc = "done"

\* The nested build's diagnostics put in place of the outer build's.
concatDiagnostics_overwriting(old, new) == new

\* compilation.warnings.concat(childCompilation.warnings), and the same for
\* the errors.
concatDiagnostics(old, new) == old \o new

\* A repeated call that pushes no warning.
warnsRepeated_never(called, ws) == FALSE

\* The warning pushed on every repeated call, with no look at the list.
warnsRepeated_always(called, ws) == called

\* Whether addAssets pushes the repeated-call warning: this.alreadyCalled,
\* and no warning of compilation.warnings has the message yet.
warnsRepeated(called, ws) ==
  called /\ ~\E k \in 1..Len(ws) : ws[k].msg = RepeatedMsg

\* The flag left as it was.
alreadyCalledAfter_unset(called) == called

\* this.alreadyCalled after the test at the head of addAssets.
alreadyCalledAfter(called) == TRUE

\* The exclude list handed on with nothing pushed.
excludeForCall_unpushed(exclude) == exclude

\* config.exclude.push((name) => _generatedAssetNames.has(name)).
excludeForCall(exclude) == Append(exclude, IsGenerated)

\* The source file emitted with a comment added to its text.
addSrcToAssets_transformed(store, swDest, source) ==
  [store EXCEPT ![swDest] = TextAsset(source \o <<MapComment>>)]

\* addSrcToAssets: compilation.emitAsset(swDest, new RawSource(source)) for
\* the source read from the input file system.
addSrcToAssets(store, swDest, source) ==
  [store EXCEPT ![swDest] = TextAsset(source)]

\* The map asset written back as it was read.
updateMapAsset_unshifted(run) == run.originalMap

\* compilation.updateAsset(sourcemapAssetName, new RawSource(map)) for the
\* map of replaceAndUpdateSourceMap({originalMap, originalSource:
\* swAssetString, replaceString: manifestString, searchString: injectionPoint}).
updateMapAsset(run) ==
  MapAsset(remapCols(run.originalMap.cols, run.swAssetString,
                     run.injectionPoint, run.manifestString))

\* The swDest asset left as it was read.
updateTextAsset_stale(run) == run.beforeText

\* compilation.updateAsset(config.swDest, new RawSource(source)) for the
\* source of the same replaceAndUpdateSourceMap call.
updateTextAsset(run) ==
  TextAsset(remapSource(run.swAssetString, run.injectionPoint,
                        run.manifestString))

\* validateWebpackInjectManifestOptions(config): the defaults filled in.
validated(cfg) ==
  [cfg EXCEPT !.exclude = IF cfg.exclude = Undef THEN DefaultExclude ELSE cfg.exclude]

\* The validated configuration with swDest as the user gave it.
resolvedConfig_unresolved(cfg) == validated(cfg)

\* this.config after validation and
\* this.config.swDest = relativeToOutputPath(compilation, this.config.swDest).
resolvedConfig(cfg) ==
  [validated(cfg) EXCEPT !.swDest = relativeToOutputPath(cfg.swDest)]

\* A nested compiler that gets none of the plugins.
pluginsApplied_none(cfg) == 0

\* for (const plugin of this.config.webpackCompilationPlugins)
\*   plugin.apply(childCompiler): the number of plugins the nested compiler
\* has got when it runs.
pluginsApplied(cfg) == cfg.webpackCompilationPlugins

\* The instances tapped before instance i.
Before(i) == {j \in instances : j < i}

\* Whether the make hook of build b is in the loop that calls its taps: the
\* tap of one instance has been called and that of another has not.
MakeLoopRunning(b) ==
  \E i \in instances, j \in instances :
    mk[i][b].pc # "idle" /\ mk[j][b].pc = "idle"

\* Whether the catch handler of a rejected handleMake call of build b is
\* still to run.
CatchPending(b) == \E i \in instances : mk[i][b].pc = "thrown"

\* Whether the turn of the event loop in which a make hook called its taps
\* has not ended: the loop is running or a catch handler is in the queue of
\* microtasks. No callback and no other hook runs before it has.
InMakeTurn(b) == MakeLoopRunning(b) \/ CatchPending(b)

NoMakeTurn == \A b \in AllBuilds : ~InMakeTurn(b)

IsTapped(i) == \E k \in 1..Len(tapped) : tapped[k] = i

\* ---------------------------------------------------------------- actions

\* The derived values put over the user's.
propagateWebpackConfig_derivedWins(cfg) ==
  [cfg EXCEPT !.mode = options.mode, !.swDest = DefaultSwDest(cfg.swSrc)]

\* propagateWebpackConfig(compiler): Object.assign({mode, swDest}, this.config).
propagateWebpackConfig(cfg) ==
  [cfg EXCEPT
     !.mode = IF cfg.mode = Undef THEN options.mode ELSE cfg.mode,
     !.swDest = IF cfg.swDest = Undef THEN DefaultSwDest(cfg.swSrc) ELSE cfg.swDest]

\* apply(compiler): the configuration is completed and the make and
\* processAssets hooks are tapped.
Apply(i) ==
  /\ i \in instances
  /\ ~IsTapped(i)
  /\ \A j \in Before(i) : IsTapped(j)
  /\ config' = [config EXCEPT ![i] = propagateWebpackConfig(config[i])]
  /\ tapped' = Append(tapped, i)
  /\ UNCHANGED <<generatedAssetNames, alreadyCalled, world, buildsLeft, started,
                 assets, warnings, errors, mk, aa, registeredIn>>

\* The outer build tool creates a compilation; its own assets are in place
\* when the plugin's hooks run.
StartBuild(b) ==
  /\ buildsLeft > 0
  /\ NoMakeTurn
  /\ \A i \in instances : IsTapped(i)
  /\ ~started[b]
  /\ \A c \in AllBuilds : c < b => IF watch THEN Ended(c) ELSE started[c]
  /\ started' = [started EXCEPT ![b] = TRUE]
  /\ buildsLeft' = buildsLeft - 1
  /\ assets' = [assets EXCEPT ![b] =
                  [n \in Names |-> IF n \in mainAssets
                                   THEN TextAsset(<<"a">>) ELSE Absent]]
  /\ UNCHANGED <<generatedAssetNames, plugin, tapped, world, warnings, errors,
                 mk, aa, registeredIn>>

\* handleMake(compilation, compiler) up to its first await, called by the
\* make hook, which calls the taps of all instances in one loop. When the
\* validation throws, the call's promise is rejected and the catch handler
\* of apply is queued.
HandleMake(i, b) ==
  /\ started[b] /\ i \in instances
  /\ mk[i][b].pc = "idle"
  /\ \A j \in Before(i) : mk[j][b].pc # "idle"
  /\ \A c \in AllBuilds : c # b => ~InMakeTurn(c)
  /\ IF config[i].invalid
     THEN /\ mk' = [mk EXCEPT ![i][b] =
                      [@ EXCEPT !.pc = "thrown", !.promise = "pending"]]
          /\ UNCHANGED <<generatedAssetNames, config, assets, warnings, errors,
                         registeredIn>>
     ELSE LET cfg == resolvedConfig(config[i])
          IN
          /\ config' = [config EXCEPT ![i] = cfg]
          /\ generatedAssetNames' = registerName(generatedAssetNames, cfg.swDest)
          /\ registeredIn' = [registeredIn EXCEPT ![b] = @ \cup {cfg.swDest}]
          /\ IF cfg.compileSrc
             THEN \* performChildCompilation up to runAsChild
                  /\ mk' = [mk EXCEPT ![i][b] =
                              [@ EXCEPT !.pc = "child", !.promise = "pending",
                                        !.filename = cfg.swDest,
                                        !.applied = pluginsApplied(cfg)]]
                  /\ UNCHANGED <<assets, warnings, errors>>
             ELSE \* addSrcToAssets, then the warning about ignored plugins
                  /\ assets' = [assets EXCEPT ![b] = addSrcToAssets(@, cfg.swDest, fs[i])]
                  /\ warnings' = [warnings EXCEPT ![b] =
                       IF cfg.webpackCompilationPlugins > 0
                       THEN Append(@, Diag(IgnoredMsg, i, "make")) ELSE @]
                  /\ mk' = [mk EXCEPT ![i][b] =
                       [@ EXCEPT !.pc = "done", !.promise = hookPromise(FALSE)]]
                  /\ UNCHANGED errors
  /\ UNCHANGED <<alreadyCalled, tapped, world, buildsLeft, started, aa>>

\* The catch handler of the make tap, run once the loop over the taps has
\* ended, the handlers in the order of the calls: the error is pushed onto
\* compilation.errors and the tap's promise resolved.
MakeCatch(i, b) ==
  /\ mk[i][b].pc = "thrown"
  /\ ~MakeLoopRunning(b)
  /\ \A j \in Before(i) : mk[j][b].pc # "thrown"
  /\ errors' = [errors EXCEPT ![b] = catchError(@, Diag(ConfigMsg, i, "make"))]
  /\ mk' = [mk EXCEPT ![i][b] =
              [@ EXCEPT !.pc = "done", !.promise = hookPromise(TRUE)]]
  /\ UNCHANGED <<generatedAssetNames, plugin, tapped, world, buildsLeft, started,
                 assets, warnings, aa, registeredIn>>

\* The callback of childCompiler.runAsChild: the nested build's assets are
\* in the compilation, and its diagnostics are appended or its error is
\* rejected with, and caught by the handler of apply.
ChildDone(i, b) ==
  /\ mk[i][b].pc = "child"
  /\ NoMakeTurn
  /\ \E r \in ChildResults :
       /\ mk' = [mk EXCEPT ![i][b] =
                   [@ EXCEPT !.pc = "done", !.result = r,
                             !.promise = hookPromise(r.err)]]
       /\ IF r.err
          THEN /\ errors' = [errors EXCEPT ![b] =
                               catchError(@, Diag(RunErrorMsg, i, "make"))]
               /\ UNCHANGED <<warnings, assets>>
          ELSE /\ warnings' = [warnings EXCEPT ![b] = concatDiagnostics(@,
                     [k \in 1..Len(r.warnings) |-> Diag(r.warnings[k], i, "child")])]
               /\ errors' = [errors EXCEPT ![b] = concatDiagnostics(@,
                     [k \in 1..Len(r.errors) |-> Diag(r.errors[k], i, "child")])]
               /\ assets' = [assets EXCEPT ![b] =
                    IF ~r.emits THEN @
                    ELSE [n \in Names |->
                      IF n = mk[i][b].filename
                        THEN TextAsset(BundleText(fs[i], options))
                      ELSE IF n = MapName(mk[i][b].filename)
                              /\ options.devtool = "source-map"
                        THEN MapAsset(BundleCols(fs[i]))
                      ELSE @[n]]]
  /\ UNCHANGED <<generatedAssetNames, plugin, tapped, world, buildsLeft, started,
                 aa, registeredIn>>

\* What the head of addAssets throws, "none" when it reaches the call of
\* getManifestEntriesFromCompilation: a TypeError for a missing exclude list
\* or a missing swDest asset, then the two errors about the injection point.
addAssetsThrows(cfg, swAsset) ==
  IF cfg.exclude = Undef THEN TypeErrorMsg
  ELSE IF swAsset.kind # "text" THEN TypeErrorMsg
  ELSE IF injectionResults(swAsset.text, cfg.injectionPoint) = 0 THEN CantFindMsg
  ELSE IF injectionResults(swAsset.text, cfg.injectionPoint) # 1 THEN MultipleMsg
  ELSE "none"

\* addAssets(compilation) up to its first await, called by the processAssets
\* hook; the catch handler of apply takes what it throws.
AddAssets(i, b) ==
  /\ started[b] /\ i \in instances
  /\ NoMakeTurn
  /\ \A j \in instances : mk[j][b].pc = "done"
  /\ \A j \in Before(i) : aa[j][b].pc = "done"
  /\ aa[i][b].pc = "idle"
  /\ LET called == alreadyCalled[i]
         warn == warnsRepeated(called, warnings[b])
         cfg == config[i]
         pushed == IF cfg.exclude = Undef THEN Undef ELSE excludeForCall(cfg.exclude)
         swAsset == getAsset(assets[b], cfg.swDest)
         thrown == addAssetsThrows(cfg, swAsset)
         run == [IdleAdd EXCEPT
                   !.callNo = 1 + Cardinality({c \in AllBuilds : aa[i][c].pc # "idle"}),
                   !.sawCalled = called,
                   !.warned = warn,
                   !.swDest = cfg.swDest,
                   !.injectionPoint = cfg.injectionPoint,
                   !.beforeText = swAsset,
                   !.beforeMap = getAsset(assets[b], MapName(cfg.swDest))]
     IN
     /\ warnings' = [warnings EXCEPT ![b] =
                       IF warn THEN Append(@, Diag(RepeatedMsg, i, "addAssets")) ELSE @]
     /\ alreadyCalled' = [alreadyCalled EXCEPT ![i] = alreadyCalledAfter(called)]
     /\ config' = [config EXCEPT ![i].exclude = pushed]
     /\ IF thrown # "none"
        THEN /\ errors' = [errors EXCEPT ![b] =
                             catchError(@, Diag(thrown, i, "addAssets"))]
             /\ aa' = [aa EXCEPT ![i][b] =
                  [run EXCEPT !.pc = "done", !.thrown = thrown,
                              !.promise = hookPromise(TRUE)]]
        ELSE /\ aa' = [aa EXCEPT ![i][b] =
                  [run EXCEPT
                     !.pc = "entries",
                     !.promise = "pending",
                     !.swAssetString = swAsset.text,
                     !.matches = injectionResults(swAsset.text, cfg.injectionPoint),
                     !.exclude = pushed,
                     !.registryAtCall = generatedAssetNames,
                     !.entries = sortedEntries(assets[b], pushed, generatedAssetNames)]]
             /\ UNCHANGED errors
  /\ UNCHANGED <<generatedAssetNames, tapped, world, buildsLeft, started, assets,
                 mk, registeredIn>>

\* addAssets from the entries to its next await or its end: the manifest is
\* serialized, and either the text of the source map is parsed and
\* replaceAndUpdateSourceMap is called, or the asset is updated by a string
\* replacement.
EntriesDone(i, b) ==
  /\ aa[i][b].pc = "entries"
  /\ NoMakeTurn
  /\ \E ok \in BOOLEAN, parses \in BOOLEAN :
       LET run == aa[i][b]
           manifestString ==
             manifestStringOf(run.entries, config[i].compileSrc, options)
           sourcemapAssetName ==
             getSourcemapAssetName(assets[b], run.swAssetString, run.swDest)
       IN
       IF ~ok
       THEN /\ errors' = [errors EXCEPT ![b] =
                            catchError(@, Diag(EntriesErrorMsg, i, "addAssets"))]
            /\ aa' = [aa EXCEPT ![i][b] =
                 [@ EXCEPT !.pc = "done", !.thrown = EntriesErrorMsg,
                           !.promise = hookPromise(TRUE)]]
            /\ UNCHANGED <<generatedAssetNames, registeredIn, assets>>
       ELSE IF sourcemapAssetName # Undef /\ ~parses
       THEN /\ generatedAssetNames' =
                 registerName(generatedAssetNames, sourcemapAssetName)
            /\ registeredIn' = [registeredIn EXCEPT ![b] = @ \cup {sourcemapAssetName}]
            /\ errors' = [errors EXCEPT ![b] =
                            catchError(@, Diag(ParseErrorMsg, i, "addAssets"))]
            /\ aa' = [aa EXCEPT ![i][b] =
                 [@ EXCEPT !.pc = "done", !.thrown = ParseErrorMsg,
                           !.manifestString = manifestString,
                           !.promise = hookPromise(TRUE)]]
            /\ UNCHANGED assets
       ELSE IF sourcemapAssetName # Undef
       THEN /\ generatedAssetNames' =
                 registerName(generatedAssetNames, sourcemapAssetName)
            /\ registeredIn' = [registeredIn EXCEPT ![b] = @ \cup {sourcemapAssetName}]
            /\ aa' = [aa EXCEPT ![i][b] =
                 [@ EXCEPT !.pc = "remap",
                           !.manifestString = manifestString,
                           !.sourcemapAssetName = sourcemapAssetName,
                           !.originalMap = getAsset(assets[b], sourcemapAssetName)]]
            /\ UNCHANGED <<errors, assets>>
       ELSE /\ assets' = [assets EXCEPT ![b][run.swDest] =
                 TextAsset(StringReplace(run.swAssetString, run.injectionPoint,
                                         manifestString))]
            /\ aa' = [aa EXCEPT ![i][b] =
                 [@ EXCEPT !.pc = "done", !.manifestString = manifestString,
                           !.updated = TRUE, !.promise = hookPromise(FALSE)]]
            /\ UNCHANGED <<generatedAssetNames, registeredIn, errors>>
  /\ UNCHANGED <<plugin, tapped, world, buildsLeft, started, warnings, mk>>

\* addAssets after replaceAndUpdateSourceMap: the map and the asset are
\* updated, or the rejection is caught by the handler of apply.
RemapDone(i, b) ==
  /\ aa[i][b].pc = "remap"
  /\ NoMakeTurn
  /\ \E ok \in BOOLEAN :
       LET run == aa[i][b] IN
       IF ~ok
       THEN /\ errors' = [errors EXCEPT ![b] =
                            catchError(@, Diag(RemapErrorMsg, i, "addAssets"))]
            /\ aa' = [aa EXCEPT ![i][b] =
                 [@ EXCEPT !.pc = "done", !.thrown = RemapErrorMsg,
                           !.promise = hookPromise(TRUE)]]
            /\ UNCHANGED assets
       ELSE /\ assets' = [assets EXCEPT
                 ![b][run.sourcemapAssetName] = updateMapAsset(run),
                 ![b][run.swDest] = updateTextAsset(run)]
            /\ aa' = [aa EXCEPT ![i][b] =
                 [@ EXCEPT !.pc = "done", !.updated = TRUE,
                           !.promise = hookPromise(FALSE)]]
            /\ UNCHANGED errors
  /\ UNCHANGED <<generatedAssetNames, plugin, tapped, world, buildsLeft, started,
                 warnings, mk, registeredIn>>

Next ==
  \/ \E i \in Inst : Apply(i)
  \/ \E b \in AllBuilds : StartBuild(b)
  \/ \E i \in Inst, b \in AllBuilds : HandleMake(i, b)
  \/ \E i \in Inst, b \in AllBuilds : MakeCatch(i, b)
  \/ \E i \in Inst, b \in AllBuilds : ChildDone(i, b)
  \/ \E i \in Inst, b \in AllBuilds : AddAssets(i, b)
  \/ \E i \in Inst, b \in AllBuilds : EntriesDone(i, b)
  \/ \E i \in Inst, b \in AllBuilds : RemapDone(i, b)

\* ---------------------------------------------------------- specifications

\* compiler.options of the outer build.
Options(devtool, minimize) ==
  [devtool |-> devtool, minimize |-> minimize, mode |-> <<"development">>]

\* Several instances on overlapping builds, with few inputs.
SystemConfigs(i) ==
  IF i = 1
  THEN { UserConfig(i, TRUE, <<"m">>, Undef, Undef, 1, FALSE, Undef),
         UserConfig(i, FALSE, <<"m">>, Undef, <<>>, 1, FALSE, <<"production">>) }
  ELSE { UserConfig(i, TRUE, <<"m">>, Undef, <<>>, 0, FALSE, Undef),
         UserConfig(i, TRUE, <<"m">>, Undef, Undef, 0, TRUE, Undef) }

SystemTexts == {<<"m">>, <<"m", "m">>}

Init ==
  InitWith(Inst, MaxBuilds, FALSE, [i \in Inst |-> SystemConfigs(i)], SystemTexts,
           {Options("source-map", FALSE), Options(EvalCheapSourceMap, TRUE)},
           {{AppJs}})

Spec == Init /\ [][Next]_vars

\* One instance on one build, with every text and every marker.
SpliceConfigs(i) ==
  {UserConfig(i, c, m, Undef, Undef, 0, FALSE, Undef) :
     c \in BOOLEAN, m \in Markers}
  \cup {UserConfig(i, TRUE, <<"m">>, Undef, Undef, 0, TRUE, Undef)}

InitSplice ==
  InitWith({1}, 1, FALSE, [i \in Inst |-> SpliceConfigs(i)], Texts,
           {Options(d, z) : d \in {"source-map", EvalCheapSourceMap}, z \in BOOLEAN},
           {{}, {AppJs}, {AppJs, DollarJs}})

SpecSplice == InitSplice /\ [][Next]_vars

\* Every instance on a run of rebuilds, one build after the other.
WatchConfigs(i) ==
  IF i = 1
  THEN { UserConfig(i, TRUE, <<"m">>, Undef, Undef, 0, FALSE, Undef),
         UserConfig(i, FALSE, <<"m">>, Undef, Undef, 0, FALSE, Undef) }
  ELSE { UserConfig(i, TRUE, <<"m">>, Undef, Undef, 0, FALSE, Undef),
         UserConfig(i, TRUE, <<"m">>, Undef, Undef, 0, TRUE, Undef) }

InitWatch ==
  InitWith(Inst, WatchBuilds, TRUE, [i \in Inst |-> WatchConfigs(i)], {<<"m">>},
           {Options("source-map", FALSE)}, {{AppJs}})

SpecWatch == InitWatch /\ [][Next]_vars

\* An instance whose options fail validation, before an instance whose
\* options pass; the first may name the second's swDest as its own.
InvalidConfigs(i) ==
  IF i = 1
  THEN { UserConfig(i, TRUE, <<"m">>, Undef, Undef, 1, TRUE, Undef),
         UserConfig(i, FALSE, <<"m">>, Undef, <<>>, 0, TRUE, Undef) }
       \cup { UserConfig(i, c, <<"m">>, DefaultSwDest(SwSrc(2)), <<>>, 0, TRUE,
                         <<"production">>) :
                c \in BOOLEAN }
  ELSE { UserConfig(i, c, <<"m">>, Undef, Undef, 0, FALSE, Undef) : c \in BOOLEAN }

InitInvalid ==
  InitWith(Inst, 1, FALSE, [i \in Inst |-> InvalidConfigs(i)], {<<"m">>},
           {Options("source-map", FALSE), Options(EvalCheapSourceMap, FALSE)},
           {{AppJs}})

SpecInvalid == InitInvalid /\ [][Next]_vars

\* One instance on a first build and a rebuild, with source files that hold
\* the marker once, twice or not at all.
RetryConfigs(i) ==
  {UserConfig(i, c, <<"m">>, d, Undef, n, FALSE, Undef) :
     c \in BOOLEAN, n \in {0, 1},
     d \in {Undef, OutputPath \o <<"/">> \o DefaultSwDest(SwSrc(i))}}
  \cup {UserConfig(i, TRUE, <<"m">>, Undef, Undef, 0, TRUE, Undef)}

RetryTexts == {<<"m">>, <<"m", "m">>, <<".">>, <<".", "m">>}

InitRetry ==
  InitWith({1}, MaxBuilds, TRUE, [i \in Inst |-> RetryConfigs(i)], RetryTexts,
           {Options("source-map", FALSE), Options(EvalCheapSourceMap, FALSE)},
           {{AppJs}})

SpecRetry == InitRetry /\ [][Next]_vars

\* ------------------------------------------------------------------ claims

\* The calls of addAssets that have started.
Calls == {c \in Inst \X AllBuilds : aa[c[1]][c[2]].pc # "idle"}

\* The calls of addAssets that read the text of their swDest asset.
Located == {c \in Calls : aa[c[1]][c[2]].thrown # TypeErrorMsg}

\* The calls of addAssets that went on to the entry computation.
Proceeded == {c \in Calls : aa[c[1]][c[2]].matches = 1}

\* Whether build b holds an error of instance i's addAssets with the message.
Reported(i, b, msg) ==
  \E k \in 1..Len(errors[b]) : errors[b][k] = Diag(msg, i, "addAssets")

RECURSIVE DisjointCount(_, _, _)
\* The occurrences a left-to-right reading counts: the first one, then the
\* first one that starts where the last one counted has ended, and so on.
DisjointCount(occ, from, len) ==
  LET rest == {p \in occ : p >= from} IN
  IF rest = {} THEN 0
  ELSE LET first == CHOOSE p \in rest : \A q \in rest : p <= q
       IN 1 + DisjointCount(occ, first + len, len)

\* What the claim C1 says of one call, with n the number of times the marker
\* occurs in the text: it proceeds iff n = 1, fails with "Can't find" iff
\* n = 0, and with "Multiple instances" iff n >= 2.
LocateAgrees(c, n) ==
  LET run == aa[c[1]][c[2]] IN
  /\ (c \in Proceeded) <=> n = 1
  /\ n = 0 <=> (run.thrown = CantFindMsg /\ Reported(c[1], c[2], CantFindMsg))
  /\ n >= 2 <=> (run.thrown = MultipleMsg /\ Reported(c[1], c[2], MultipleMsg))

\* C1, as amended: for every text and every marker, metacharacters read
\* literally, addAssets proceeds to the entry computation iff the marker
\* occurs exactly once, fails with "Can't find" iff it occurs zero times and
\* with "Multiple instances" iff it occurs twice or more, the occurrences
\* counted from left to right without overlap.
C1_LocateDisjoint ==
  \A c \in Located :
    LET run == aa[c[1]][c[2]] IN
    LocateAgrees(c, DisjointCount(
      Occurrences(run.beforeText.text, run.injectionPoint), 0,
      Len(run.injectionPoint)))

\* C1, as stated: the same with every offset at which the marker occurs
\* counted as an occurrence.
C1_LocateEveryOffset ==
  \A c \in Located :
    LET run == aa[c[1]][c[2]] IN
    LocateAgrees(c, Cardinality(
      Occurrences(run.beforeText.text, run.injectionPoint)))

\* C1's case: a call proceeded on a text that holds a marker with a
\* metacharacter once, beside other characters.
C1_Witness ==
  \E c \in Proceeded :
    LET run == aa[c[1]][c[2]] IN
    /\ \E k \in 1..Len(run.injectionPoint) : run.injectionPoint[k] = "."
    /\ Len(run.beforeText.text) > Len(run.injectionPoint)

\* The calls of addAssets that have ended.
Finished == {c \in Calls : aa[c[1]][c[2]].pc = "done"}

\* Whether build b holds an error that instance i's addAssets hook appended.
Failed(i, b) ==
  \E k \in 1..Len(errors[b]) :
    errors[b][k].by = i /\ errors[b][k].hook = "addAssets"

\* The text and the map a call leaves in place of the swDest asset and its
\* source map when it splices.
SplicedText(run) ==
  IF run.sourcemapAssetName = Undef
  THEN TextAsset(StringReplace(run.swAssetString, run.injectionPoint,
                               run.manifestString))
  ELSE TextAsset(remapSource(run.swAssetString, run.injectionPoint,
                             run.manifestString))

SplicedMap(run) ==
  IF run.sourcemapAssetName = Undef THEN run.beforeMap
  ELSE MapAsset(remapCols(run.originalMap.cols, run.swAssetString,
                          run.injectionPoint, run.manifestString))

\* C2: the promise of the addAssets hook never rejects, and a call that has
\* ended has either updated the swDest asset (and its source map, when there
\* is one) with the spliced manifest and appended no error, or appended an
\* error and left the asset and the map as they were before the call; after a
\* failure to find the marker once, no entry was computed and nothing updated.
C2_UpdatedOrReported ==
  \A c \in Calls :
    LET i == c[1]
        b == c[2]
        run == aa[i][b]
        text == getAsset(assets[b], run.swDest)
        map == getAsset(assets[b], MapName(run.swDest))
    IN
    /\ run.promise # "rejected"
    /\ c \in Finished =>
         /\ run.promise = "resolved"
         /\ \/ /\ ~Failed(i, b)
               /\ run.updated
               /\ text = SplicedText(run) /\ text # run.beforeText
               /\ map = SplicedMap(run)
            \/ /\ Failed(i, b)
               /\ ~run.updated
               /\ text = run.beforeText
               /\ map = run.beforeMap
         /\ run.thrown \in {CantFindMsg, MultipleMsg} =>
              /\ Failed(i, b) /\ ~run.updated
              /\ run.entries = <<>> /\ run.manifestString = <<>>

\* C2's case: in one build a call has failed on a marker that occurs twice
\* and left its asset alone, and another has updated its asset and its map.
C2_Witness ==
  \E c \in Finished, d \in Finished :
    /\ c[2] = d[2]
    /\ aa[c[1]][c[2]].thrown = MultipleMsg
    /\ getAsset(assets[c[2]], aa[c[1]][c[2]].swDest) = aa[c[1]][c[2]].beforeText
    /\ aa[d[1]][d[2]].updated
    /\ aa[d[1]][d[2]].sourcemapAssetName # Undef

\* The offset of the marker in a text that holds it once.
OnlyOffset(t, m) == CHOOSE p \in Occurrences(t, m) : TRUE

\* C3: with no source map, and a text T that holds the marker M once, at
\* offset p, the updated asset is T[0..p) + R + T[p+len(M)..] for the
\* manifest string R, whatever its characters: R stands at offset p, and the
\* length is len(T) - len(M) + len(R).
C3_SpliceVerbatim ==
  \A c \in Finished :
    LET run == aa[c[1]][c[2]]
        t == run.swAssetString
        m == run.injectionPoint
        r == run.manifestString
        new == getAsset(assets[c[2]], run.swDest)
    IN
    (run.updated /\ run.sourcemapAssetName = Undef
       /\ Cardinality(Occurrences(t, m)) = 1) =>
      /\ new = TextAsset(SpliceAt(t, OnlyOffset(t, m), m, r))
      /\ Len(new.text) = Len(t) - Len(m) + Len(r)
      /\ SubSeq(new.text, OnlyOffset(t, m) + 1, OnlyOffset(t, m) + Len(r)) = r

\* Whether a text holds a double quote.
HasQuote(t) == \E k \in 1..Len(t) : t[k] = Quote

\* The calls of addAssets that serialized their manifest.
Serialized == {c \in Calls : aa[c[1]][c[2]].manifestString # <<>>}

\* C4: the manifest text that is spliced is the key-sorted serialization
\* with every double quote rewritten to a single quote (so it holds no double
\* quote) when compileSrc is true and the build is not one with the devtool
\* 'eval-cheap-source-map' that minimizes, and is the serialization unchanged
\* in every other configuration; a serialization with entries holds no
\* double quote iff the first is the case.
C4_QuoteRewrite ==
  \A c \in Serialized :
    LET run == aa[c[1]][c[2]]
        special == options.devtool = "eval-cheap-source-map" /\ options.minimize
        rewrites == config[c[1]].compileSrc /\ ~special
        json == stringify(run.entries)
    IN
    /\ rewrites =>
         /\ Len(run.manifestString) = Len(json)
         /\ \A k \in 1..Len(json) :
              run.manifestString[k] = (IF json[k] = Quote THEN "'" ELSE json[k])
         /\ ~HasQuote(run.manifestString)
    /\ ~rewrites => run.manifestString = json
    /\ run.entries # <<>> => (~HasQuote(run.manifestString) <=> rewrites)

\* C4's case: a compiled swSrc in the build with the special devtool that
\* minimizes, whose manifest has entries and keeps its double quotes.
C4_Witness ==
  \E c \in Serialized :
    /\ config[c[1]].compileSrc
    /\ options.devtool = "eval-cheap-source-map" /\ options.minimize
    /\ aa[c[1]][c[2]].entries # <<>>
    /\ HasQuote(aa[c[1]][c[2]].manifestString)
    /\ aa[c[1]][c[2]].updated

\* C5: for every name that is in the registry when a call of addAssets calls
\* the entry computation, the exclude list the call hands over holds a
\* predicate that answers true for the name, so no entry has the name.
C5_SelfExclusion ==
  \A c \in Proceeded :
    LET run == aa[c[1]][c[2]] IN
    \A n \in run.registryAtCall :
      /\ \E k \in 1..Len(run.exclude) :
           Holds(run.exclude[k], n, run.registryAtCall)
      /\ \A k \in 1..Len(run.entries) : run.entries[k].url # n

\* C5's case: the entry computation was called with the swDest names of two
\* instances in the registry, by an instance whose own exclude list was empty.
C5_Witness ==
  \E c \in Proceeded :
    LET run == aa[c[1]][c[2]] IN
    /\ Cardinality(run.registryAtCall) >= 2
    /\ \A k \in 1..Len(run.exclude) : run.exclude[k] = IsGenerated
    /\ run.entries # <<>>

\* C6: every name that any instance adds to the registry during a build,
\* the swDest name in handleMake and the source map's name in addAssets, is in
\* the registry when any instance's entry computation for that build runs.
C6_RegisteredBeforeEntries ==
  \A c \in Proceeded :
    registeredIn[c[2]] \subseteq aa[c[1]][c[2]].registryAtCall

\* C7: of the addAssets calls on one instance, the first one and no other
\* finds alreadyCalled false, also when the calls overlap, and the flag is
\* true from the first call on.
C7_GuardOnce ==
  \A i \in Inst :
    LET mine == {b \in AllBuilds : aa[i][b].pc # "idle"} IN
    /\ alreadyCalled[i] <=> mine # {}
    /\ \A b \in mine : aa[i][b].sawCalled <=> aa[i][b].callNo # 1
    /\ mine # {} => Cardinality({b \in mine : ~aa[i][b].sawCalled}) = 1

\* C7's case: two calls on one instance are both waiting on an await, the
\* one that found the flag false and one that found it true.
C7_Witness ==
  \E i \in Inst, b \in AllBuilds, c \in AllBuilds :
    /\ aa[i][b].pc \in {"entries", "remap"} /\ ~aa[i][b].sawCalled
    /\ aa[i][c].pc \in {"entries", "remap"} /\ aa[i][c].sawCalled

\* The places of the repeated-call warning in a build's warnings.
RepeatedIn(b) == {k \in 1..Len(warnings[b]) : warnings[b][k].msg = RepeatedMsg}

\* C8, as amended: the repeated-call warning is in the warnings of a
\* compilation at most once, however many repeated calls of addAssets, of any
\* instance, get that compilation, and once when there is such a call; a
\* first call adds none.
C8_OncePerCompilation ==
  \A b \in AllBuilds :
    /\ Cardinality(RepeatedIn(b)) <= 1
    /\ (\E i \in Inst : aa[i][b].pc # "idle" /\ aa[i][b].sawCalled)
         <=> Cardinality(RepeatedIn(b)) = 1
    /\ \A i \in Inst : aa[i][b].warned => aa[i][b].sawCalled

\* C8, as stated: an instance emits the repeated-call warning at most once,
\* also when its repeated calls get different compilations.
C8_OncePerInstance ==
  \A i \in Inst :
    Cardinality(UNION {{<<b, k>> : k \in {n \in 1..Len(warnings[b]) :
                   warnings[b][n] = Diag(RepeatedMsg, i, "addAssets")}} :
                 b \in AllBuilds}) <= 1

\* C8's case: two repeated calls got the same compilation, which holds the
\* warning once.
C8_Witness ==
  \E b \in AllBuilds, i \in Inst, j \in Inst :
    /\ i # j
    /\ aa[i][b].sawCalled /\ aa[j][b].sawCalled
    /\ Cardinality(RepeatedIn(b)) = 1

\* C9: the registry only grows, from every state to the next, and every name
\* that was registered is found by a lookup in every later state.
C9_AppendOnly ==
  /\ [][generatedAssetNames \subseteq generatedAssetNames']_vars
  /\ [](\A b \in AllBuilds : \A n \in registeredIn[b] :
          Holds(IsGenerated, n, generatedAssetNames))

\* C9's case: the registry holds the names of two instances and a source
\* map, and an entry computation looked names up before the last was added.
C9_Witness ==
  /\ Cardinality(generatedAssetNames) >= 3
  /\ \E c \in Proceeded :
       /\ aa[c[1]][c[2]].registryAtCall # {}
       /\ aa[c[1]][c[2]].registryAtCall # generatedAssetNames

\* The diagnostics of a nested build as they stand in the outer build's lists.
FromChild(msgs, i) == [k \in 1..Len(msgs) |-> Diag(msgs[k], i, "child")]

\* C10: when a nested build ends, the outer build's warnings and errors are
\* what they were, followed by the nested build's, or by the error passed to
\* the callback; the promise of the make hook is resolved; and no step of any
\* call drops a warning or an error of any build.
C10_ChildDiagnosticsAppended ==
  [][ /\ \A b \in AllBuilds :
           /\ IsPrefix(warnings[b], warnings'[b])
           /\ IsPrefix(errors[b], errors'[b])
      /\ \A i \in Inst, b \in AllBuilds :
           (mk[i][b].pc = "child" /\ mk'[i][b].pc = "done") =>
             LET r == mk'[i][b].result IN
             /\ mk'[i][b].promise = "resolved"
             /\ warnings'[b] = warnings[b] \o (IF r.err THEN <<>> ELSE FromChild(r.warnings, i))
             /\ errors'[b] = errors[b] \o
                  (IF r.err THEN <<Diag(RunErrorMsg, i, "make")>>
                   ELSE FromChild(r.errors, i))
    ]_vars

\* C10's case: two instances' nested builds of one build have ended, the
\* second instance's first, one with errors of its own, and their
\* diagnostics stand in the order in which they ended.
C10_Witness ==
  \E b \in AllBuilds :
    /\ Len(warnings[b]) >= 2
    /\ warnings[b][1] = Diag(ChildWarningMsg, 2, "child")
    /\ warnings[b][2] = Diag(ChildWarningMsg, 1, "child")
    /\ \E k \in 1..Len(errors[b]) : errors[b][k].msg = ChildErrorMsg

\* C11: when the validation of an instance's options fails in handleMake, the
\* call ends by reporting the configuration error and nothing else: no name
\* is added to the registry, no nested build is started, no asset is emitted,
\* no warning added; and the addAssets call of that instance on the same
\* build updates no asset.
C11_ConfigErrorBeforeWork ==
  /\ [][\A i \in Inst, b \in AllBuilds :
          (config[i].invalid /\ mk[i][b].pc # "done" /\ mk'[i][b] # mk[i][b]) =>
            /\ mk[i][b].pc = "idle" => mk'[i][b].pc = "thrown" /\ errors' = errors
            /\ mk[i][b].pc = "thrown" =>
                 /\ mk'[i][b].pc = "done"
                 /\ errors'[b] = Append(errors[b], Diag(ConfigMsg, i, "make"))
            /\ mk'[i][b].pc # "child"
            /\ generatedAssetNames' = generatedAssetNames
            /\ assets' = assets
            /\ warnings' = warnings]_vars
  /\ [](\A i \in Inst, b \in AllBuilds :
          config[i].invalid =>
            /\ ~aa[i][b].updated
            /\ aa[i][b].pc = "done" =>
                 \A n \in Names : getAsset(assets[b], n) # SplicedText(aa[i][b]))

\* C12: when compileSrc is false, handleMake ends without starting a nested
\* build or applying a plugin, and the one asset it changes is the one under
\* the resolved swDest name, whose content is the text read for swSrc from
\* the input file system; no handleMake call of such an instance ever waits
\* for a nested build.
C12_VerbatimCopy ==
  /\ [][\A i \in Inst, b \in AllBuilds :
          (~config[i].invalid /\ ~config[i].compileSrc
             /\ mk[i][b].pc = "idle" /\ mk'[i][b].pc # "idle") =>
            /\ mk'[i][b].pc = "done"
            /\ mk'[i][b].applied = 0
            /\ assets'[b] =
                 [assets[b] EXCEPT ![relativeToOutputPath(config[i].swDest)] =
                    TextAsset(fs[i])]
            /\ \A c \in AllBuilds : c # b => assets'[c] = assets[c]]_vars
  /\ [](\A i \in Inst, b \in AllBuilds :
          ~config[i].compileSrc => mk[i][b].pc # "child")

\* C12's case: a verbatim copy of a two-character source is in place, and
\* its addAssets call has not started.
C12_Witness ==
  \E i \in Inst, b \in AllBuilds :
    /\ ~config[i].compileSrc
    /\ mk[i][b].pc = "done" /\ aa[i][b].pc = "idle"
    /\ Len(fs[i]) = 2
    /\ getAsset(assets[b], config[i].swDest) = TextAsset(fs[i])

\* C13: the step of apply that completes an instance's configuration keeps
\* mode and swDest where the user set them, gives them the outer build's mode
\* and the swSrc base name with '.js' where the user left them out, and
\* keeps every other option.
C13_BackFill ==
  [][\A i \in Inst :
       (~IsTapped(i) /\ IsTapped(i)') =>
         /\ config'[i].mode =
              (IF config[i].mode # Undef THEN config[i].mode ELSE options.mode)
         /\ config'[i].swDest =
              (IF config[i].swDest # Undef THEN config[i].swDest
               ELSE SubSeq(config[i].swSrc, 1, Len(config[i].swSrc) - 3)
                      \o <<".", "j", "s">>)
         /\ config'[i] = [config[i] EXCEPT !.mode = config'[i].mode,
                                           !.swDest = config'[i].swDest]
         /\ \A j \in Inst : j # i => config'[j] = config[j]]_vars

\* C13's case: apply has run for an instance whose mode and swDest the user
\* set to other values than the derived ones, and for one that set neither.
C13_Witness ==
  \E i \in Inst, j \in Inst :
    /\ IsTapped(i) /\ IsTapped(j)
    /\ config[i].mode # options.mode
    /\ config[i].swDest # DefaultSwDest(config[i].swSrc)
    /\ config[j].mode = options.mode
    /\ config[j].swDest = DefaultSwDest(config[j].swSrc)

\* The offset of the first occurrence of the marker in a text that holds it.
FirstOffset(t, m) ==
  CHOOSE p \in Occurrences(t, m) : \A q \in Occurrences(t, m) : p <= q

\* The calls of addAssets that updated an asset and its source map.
Remapped ==
  {c \in Finished : aa[c[1]][c[2]].updated
                      /\ aa[c[1]][c[2]].sourcemapAssetName # Undef}

\* C14: when addAssets has updated an asset that has a source map, the map
\* asset holds as many mappings as before the call; a mapping whose generated
\* column was on or before the offset of the marker has the column it had,
\* and one whose column was after it has that column moved by the length of
\* the manifest text less the length of the marker.
C14_RemapShift ==
  \A c \in Remapped :
    LET run == aa[c[1]][c[2]]
        old == run.beforeMap.cols
        new == getAsset(assets[c[2]], run.sourcemapAssetName)
        p == FirstOffset(run.beforeText.text, run.injectionPoint)
        delta == Len(run.manifestString) - Len(run.injectionPoint)
    IN
    /\ new.kind = "map"
    /\ Len(new.cols) = Len(old)
    /\ \A k \in 1..Len(old) :
         new.cols[k] = (IF old[k] <= p THEN old[k] ELSE old[k] + delta)

\* C14's case: the map had a mapping before the marker, one at it and one
\* after it, and the manifest text is longer than the marker.
C14_Witness ==
  \E c \in Remapped :
    LET run == aa[c[1]][c[2]]
        old == run.beforeMap.cols
        p == FirstOffset(run.beforeText.text, run.injectionPoint)
    IN
    /\ Len(run.manifestString) > Len(run.injectionPoint)
    /\ \E k \in 1..Len(old) : old[k] < p
    /\ \E k \in 1..Len(old) : old[k] = p
    /\ \E k \in 1..Len(old) : old[k] > p

\* C15: no step of an addAssets call changes this.config of any instance, the
\* entries and the length of its exclude list included.
C15_ConfigUnchanged ==
  [][(\E i \in Inst, b \in AllBuilds : aa'[i][b] # aa[i][b]) =>
       config' = config]_vars

\* Whether no addAssets call of instance i is under way.
Quiet(i) == \A b \in AllBuilds : aa[i][b].pc \in {"idle", "done"}

\* C16, as amended: alreadyCalled of an instance is false until its first
\* addAssets call starts and true from then on, whatever the outcome of the
\* call; so a call that follows a failed one finds the flag true, and the
\* compilation it is given holds the repeated-call warning.
C16_GuardSetOnEntry ==
  \A i \in Inst :
    /\ alreadyCalled[i] <=> \E b \in AllBuilds : aa[i][b].callNo >= 1
    /\ \A b \in AllBuilds, c \in AllBuilds :
         (aa[i][b].pc = "done" /\ aa[i][b].thrown # "none"
            /\ aa[i][c].callNo > aa[i][b].callNo) =>
           /\ aa[i][c].sawCalled
           /\ RepeatedIn(c) # {}

\* C16, as stated: alreadyCalled of an instance is true only once an
\* injection of that instance has completed, and a call that follows only
\* failed calls adds no repeated-call warning.
C16_GuardSetOnCompletion ==
  \A i \in Inst :
    Quiet(i) =>
      /\ alreadyCalled[i] => \E b \in AllBuilds : aa[i][b].updated
      /\ \A c \in AllBuilds :
           aa[i][c].warned =>
             \E b \in AllBuilds : aa[i][b].updated
                                    /\ aa[i][b].callNo < aa[i][c].callNo

\* C16's case: a call failed on the injection point, and the next call on
\* the same instance added the warning.
C16_Witness ==
  \E i \in Inst, b \in AllBuilds, c \in AllBuilds :
    /\ aa[i][b].pc = "done"
    /\ aa[i][b].thrown \in {CantFindMsg, MultipleMsg}
    /\ aa[i][c].callNo = aa[i][b].callNo + 1
    /\ aa[i][c].warned

\* The calls of addAssets that found alreadyCalled true.
Repeated == {c \in Calls : aa[c[1]][c[2]].sawCalled}

\* C17: a call of addAssets that finds alreadyCalled true goes through the
\* same steps as a first call, on the compilation it is given: it proceeds to
\* the entries iff that compilation's swDest asset holds the marker once, and
\* when nothing fails it replaces the asset by the splice of the manifest it
\* serialized from its own entries. Its compilation holds the repeated-call
\* warning among its warnings, and no errors list ever holds it.
C17_WarnedNotBlocked ==
  /\ \A c \in Repeated :
       LET i == c[1]
           b == c[2]
           run == aa[i][b]
       IN
       /\ RepeatedIn(b) # {}
       /\ run.beforeText.kind = "text" =>
            (run.matches = 1 <=>
               injectionResults(run.beforeText.text, config[i].injectionPoint) = 1)
       /\ run.matches = 1 =>
            run.entries = sortedEntries(
              [assets[b] EXCEPT ![run.swDest] = run.beforeText,
                                ![MapName(run.swDest)] = run.beforeMap],
              run.exclude, run.registryAtCall)
       /\ (run.pc = "done" /\ run.thrown = "none") =>
            /\ run.updated
            /\ run.manifestString =
                 manifestStringOf(run.entries, config[i].compileSrc, options)
            /\ getAsset(assets[b], run.swDest) = SplicedText(run)
       /\ run.thrown \in {"none", TypeErrorMsg, CantFindMsg, MultipleMsg,
                          EntriesErrorMsg, ParseErrorMsg, RemapErrorMsg}
  /\ \A b \in AllBuilds : \A k \in 1..Len(errors[b]) :
       errors[b][k].msg # RepeatedMsg

\* C17's case: a call that found alreadyCalled true has replaced the asset
\* and the source map of its own compilation, with entries in the manifest.
C17_Witness ==
  \E c \in Repeated :
    /\ aa[c[1]][c[2]].updated
    /\ aa[c[1]][c[2]].sourcemapAssetName # Undef
    /\ aa[c[1]][c[2]].entries # <<>>
    /\ aa[c[1]][c[2]].warned

\* Whether a name is an absolute path.
IsAbsolute(name) == Len(name) >= 1 /\ name[1] = "/"

\* The handleMake calls of instances whose options pass validation.
ValidMakes ==
  {c \in Inst \X AllBuilds : ~config[c[1]].invalid /\ mk[c[1]][c[2]].pc # "idle"}

\* C18: the step of handleMake on valid options resolves swDest to its form
\* relative to the output path and leaves the registry as it was plus that
\* name; when the instance's handleMake has run before, swDest and the
\* registry stay as they are; no other step adds a name to the registry
\* except the name of a source map. So while a nested build is under way or
\* a copy is in place, the name it is emitted under is registered for that
\* build.
C18_RegisteredOnceResolved ==
  /\ [][\A i \in Inst, b \in AllBuilds :
          (~config[i].invalid /\ mk[i][b].pc = "idle" /\ mk'[i][b].pc # "idle") =>
            /\ ~IsAbsolute(config'[i].swDest)
            /\ IsAbsolute(config[i].swDest) =>
                 config[i].swDest = OutputPath \o <<"/">> \o config'[i].swDest
            /\ ~IsAbsolute(config[i].swDest) => config'[i].swDest = config[i].swDest
            /\ generatedAssetNames' = generatedAssetNames \cup {config'[i].swDest}
            /\ registeredIn'[b] = registeredIn[b] \cup {config'[i].swDest}
            /\ (\E c \in AllBuilds : mk[i][c].pc # "idle") =>
                 /\ config'[i].swDest = config[i].swDest
                 /\ generatedAssetNames' = generatedAssetNames]_vars
  /\ [][(\A i \in Inst, b \in AllBuilds : mk[i][b].pc = "idle" => mk'[i][b].pc = "idle") =>
          \A n \in generatedAssetNames' \ generatedAssetNames :
            IsSuffix(MapSuffix, n)]_vars
  /\ [](\A c \in ValidMakes :
          LET i == c[1]
              b == c[2]
          IN
          /\ ~IsAbsolute(config[i].swDest)
          /\ config[i].swDest \in generatedAssetNames
          /\ config[i].swDest \in registeredIn[b]
          /\ mk[i][b].pc = "child" => mk[i][b].filename = config[i].swDest)

\* C18's case: an instance has run handleMake on a build and on a rebuild,
\* both registered the resolved name, and addAssets has read it.
C18_Witness ==
  \E i \in Inst, b \in AllBuilds, c \in AllBuilds :
    /\ b # c
    /\ <<i, b>> \in ValidMakes /\ <<i, c>> \in ValidMakes
    /\ config[i].swDest = DefaultSwDest(SwSrc(i))
    /\ config[i].swDest \in registeredIn[b] \cap registeredIn[c]
    /\ \E k \in 1..Len(tapped) : tapped[k] = i
    /\ aa[i][b].swDest = config[i].swDest

\* The places of instance i's warning about ignored plugins in the warnings
\* of build b.
IgnoredIn(i, b) ==
  {k \in 1..Len(warnings[b]) : warnings[b][k] = Diag(IgnoredMsg, i, "make")}

\* C19: the step of handleMake on valid options, when compileSrc is true,
\* starts a nested build whose compiler has got every configured plugin once
\* and adds no warning; when compileSrc is false it applies no plugin, emits
\* the swDest asset, and adds the one warning about ignored plugins iff
\* plugins are configured. The plugins a nested compiler has got do not
\* change while it runs, and a build holds an instance's warning about
\* ignored plugins once or not at all.
C19_PluginsOnChildOnly ==
  /\ [][\A i \in Inst, b \in AllBuilds :
          (~config[i].invalid /\ mk[i][b].pc = "idle" /\ mk'[i][b].pc # "idle") =>
            IF config[i].compileSrc
            THEN /\ mk'[i][b].pc = "child"
                 /\ mk'[i][b].applied = config[i].webpackCompilationPlugins
                 /\ warnings' = warnings
                 /\ assets' = assets
            ELSE /\ mk'[i][b].pc = "done"
                 /\ mk'[i][b].applied = 0
                 /\ getAsset(assets'[b], config'[i].swDest).kind = "text"
                 /\ warnings'[b] =
                      (IF config[i].webpackCompilationPlugins > 0
                       THEN Append(warnings[b], Diag(IgnoredMsg, i, "make"))
                       ELSE warnings[b])]_vars
  /\ [][\A i \in Inst, b \in AllBuilds :
          mk[i][b].pc # "idle" => mk'[i][b].applied = mk[i][b].applied]_vars
  /\ [](\A i \in Inst, b \in AllBuilds :
          Cardinality(IgnoredIn(i, b)) =
            (IF mk[i][b].pc # "idle" /\ ~config[i].invalid /\ ~config[i].compileSrc
                /\ config[i].webpackCompilationPlugins > 0
             THEN 1 ELSE 0))

\* C19's case: on a build a nested compiler ran with its plugin, or a copy
\* was emitted with the warning, and the rebuild of the instance is past
\* handleMake as well.
C19_Witness ==
  \E i \in Inst, b \in AllBuilds, c \in AllBuilds :
    /\ b # c
    /\ config[i].webpackCompilationPlugins > 0
    /\ mk[i][b].pc = "done" /\ mk[i][c].pc = "done"
    /\ IF config[i].compileSrc
       THEN mk[i][b].applied = 1 /\ mk[i][c].applied = 1
       ELSE IgnoredIn(i, b) # {} /\ IgnoredIn(i, c) # {}

\* The calls of addAssets whose swDest asset had a source map when they
\* started.
WithMap ==
  {c \in Calls :
     /\ aa[c[1]][c[2]].beforeText.kind = "text"
     /\ getSourcemapAssetName(
          [EmptyStore EXCEPT ![MapName(aa[c[1]][c[2]].swDest)] =
             aa[c[1]][c[2]].beforeMap],
          aa[c[1]][c[2]].beforeText.text, aa[c[1]][c[2]].swDest) # Undef}

\* C20: while and after addAssets runs on an asset that has a source map,
\* the text and the map are either both as they were before the call, or
\* both the outputs of the call's one replaceAndUpdateSourceMap; the second is
\* the case once the call has ended with no error, the first when it has
\* ended with one, a failure to parse the map or to remap included.
C20_TextAndMapTogether ==
  \A c \in WithMap :
    LET i == c[1]
        b == c[2]
        run == aa[i][b]
        text == getAsset(assets[b], run.swDest)
        map == getAsset(assets[b], MapName(run.swDest))
    IN
    IF run.pc = "done" /\ run.thrown = "none"
    THEN /\ run.sourcemapAssetName = MapName(run.swDest)
         /\ text = TextAsset(remapSource(run.beforeText.text, run.injectionPoint,
                                         run.manifestString))
         /\ map = MapAsset(remapCols(run.beforeMap.cols, run.beforeText.text,
                                     run.injectionPoint, run.manifestString))
         /\ text # run.beforeText
    ELSE /\ text = run.beforeText
         /\ map = run.beforeMap

\* C20's case: a call has replaced the text and a map whose mappings the
\* replacement moved.
C20_Witness ==
  \E c \in WithMap :
    LET run == aa[c[1]][c[2]] IN
    /\ run.updated
    /\ getAsset(assets[c[2]], MapName(run.swDest)) # run.beforeMap
    /\ getAsset(assets[c[2]], run.swDest) # run.beforeText

====
